---- MODULE Spec2Model ----
(***************************************************************************)
(* State-machine model of the hashstats servers.                           *)
(*                                                                         *)
(* The nonce-protected server (src/unnamed/part_000) is modelled as one    *)
(* atomic action per handler or callback: Node runs each synchronous       *)
(* handler to completion.  Strings are tuples of one-character strings,    *)
(* so that parseInt and the `${timestamp}:${nonce}` template are computed  *)
(* and not assumed.  JSON values of a request body are records             *)
(* [kind, val]; a register array is kept sparse (a register outside the    *)
(* domain holds 0).  blake3, ed25519 and the Bloom filter's hash probes    *)
(* are tables over the finitely many inputs of the model.                  *)
(***************************************************************************)
EXTENDS Integers, Sequences, FiniteSets, TLC

(* ------------------------------ bounds --------------------------------- *)
MaxAccepted == 2
MaxTicks == 3

(* ------------------------- program constants --------------------------- *)
HLL_REGISTERS == 1024
NONCE_WINDOW_MS == 60000
SWEEP_INTERVAL_MS == 30000
NB_BYTES_PER_HASH == 10
MS_PER_DAY == 86400000

\* The model's clock starts one replay window before a UTC midnight (the end
\* of 1970-01-03), so that pings fall on two days of two different weeks.
StartMs == (3 * MS_PER_DAY) - NONCE_WINDOW_MS
TickMs == SWEEP_INTERVAL_MS
EndMs == StartMs + (MaxTicks * TickMs)

(* ------------------------------ strings -------------------------------- *)
Digits == <<"0", "1", "2", "3", "4", "5", "6", "7", "8", "9">>

DigitChars == {Digits[d] : d \in 1..10}

DigitVal == [c \in DigitChars |-> (CHOOSE d \in 1..10 : Digits[d] = c) - 1]

RECURSIVE DecStr(_)
\* Number.prototype.toString / Date.now().toString() for n >= 0.
DecStr(n) == IF n < 10 THEN <<Digits[n + 1]>>
             ELSE Append(DecStr(n \div 10), Digits[(n % 10) + 1])

RECURSIVE LastDigit(_, _)
\* The position of the last character of the run of decimal digits that
\* starts at position i of s (i - 1 when there is none).
LastDigit(s, i) == IF i > Len(s) \/ s[i] \notin DigitChars THEN i - 1
                   ELSE LastDigit(s, i + 1)

RECURSIVE DigitsVal(_, _, _)
\* The number written by the digits s[from..to].
DigitsVal(s, from, to) ==
    IF to < from THEN 0
    ELSE (DigitsVal(s, from, to - 1) * 10) + DigitVal[s[to]]

NaN == [nan |-> TRUE, val |-> 0]
Num(n) == [nan |-> FALSE, val |-> n]

\* The number parseInt reads from the digits s[from..to], NaN when there is
\* no digit.
parsedDigits(s, from, to) ==
    IF to < from THEN NaN
    ELSE Num(IF s[1] = "-" THEN 0 - DigitsVal(s, from, to)
             ELSE DigitsVal(s, from, to))

\* parseInt(string): an optional sign, then the longest prefix of decimal
\* digits.
parseInt(s) ==
    IF s # <<>> /\ s[1] \in {"-", "+"}
    THEN parsedDigits(s, 2, LastDigit(s, 2))
    ELSE parsedDigits(s, 1, LastDigit(s, 1))

\* The values of the server clock, the offsets of the timestamps that clients
\* claim, and every timestamp string a request of the model carries.
ClockValues == {StartMs + (i * TickMs) : i \in 0..MaxTicks}

StaleOffset == 0 - (NONCE_WINDOW_MS + TickMs)

TimestampOffsets == {StaleOffset, 0 - TickMs, NONCE_WINDOW_MS}

TimestampStrings ==
    {<<"a", "b", "c">>}
    \cup {DecStr(t + d) : t \in ClockValues, d \in TimestampOffsets \cup {0}}
    \cup {DecStr(t) \o <<":", "a">> : t \in ClockValues}

\* parseInt of each timestamp string of the model, computed once.
ParsedTimestamp == [s \in TimestampStrings |-> parseInt(s)]

\* Math.abs(a - b) > w for a number a and a possibly-NaN b: every comparison
\* with NaN is false.
AbsDiffExceeds(a, b, w) ==
    /\ ~b.nan
    /\ (IF a - b.val < 0 THEN b.val - a ELSE a - b.val) > w

(* ---------------------------- JSON values ------------------------------ *)
Undefined == [kind |-> "undefined", val |-> <<>>]
Str(s) == [kind |-> "string", val |-> s]
Arr(s) == [kind |-> "array", val |-> s]   \* the one-element array [s]

\* !x of JavaScript: undefined and the empty string are falsy, an array is not.
Falsy(x) == x.kind = "undefined" \/ (x.kind = "string" /\ x.val = <<>>)

\* `${x}`: a string is itself, the array [s] joins to s.
TemplateString(x) == IF x.kind = "undefined"
                     THEN <<"u", "n", "d", "e", "f", "i", "n", "e", "d">>
                     ELSE x.val

(* ------------------------ keys and signatures -------------------------- *)
\* The bech32 public-key strings of the model and the key bytes they decode
\* to; 0 stands for a string bech32.decode throws on, 4 for bytes that are
\* not of the length of a key.
PublicKeyStrings == {<<"k1">>, <<"k2">>, <<"k3">>}

UndecodableKey == <<"k", "?">>
ShortKey == <<"k", "s">>

\* The string k1 in upper case: bech32.decode takes a string that is all in
\* one case and decodes its lower-case form.
UpperCaseKey == <<"K1">>

Bech32Key(s) == IF s = <<"k1">> \/ s = UpperCaseKey THEN 1
                ELSE IF s = <<"k2">> THEN 2
                ELSE IF s = <<"k3">> THEN 3
                ELSE IF s = ShortKey THEN 4
                ELSE 0

\* Signature values of a request body: absent, a string that is no signature,
\* or the bech32 string of the ed25519 signature of msg under key's secret.
NoSig == [kind |-> "undefined", signer |-> 0, msg |-> <<>>]
GarbageSig == [kind |-> "garbage", signer |-> 0, msg |-> <<>>]
Sign(key, msg) == [kind |-> "sig", signer |-> key, msg |-> msg]

\* A bech32 string that decodes to bytes that are not of the length of a
\* signature.
ShortSig == [kind |-> "short", signer |-> 0, msg |-> <<>>]

\* The try block of verifySignature: bech32.decode throws on a value that is
\* no bech32 string, ed25519.verify on a key or a signature of the wrong
\* length; otherwise ed25519.verify answers.
verifyTry(message, signature, publicKey) ==
    IF \/ signature.kind \notin {"sig", "short"}
       \/ publicKey.kind # "string"
       \/ Bech32Key(publicKey.val) = 0
    THEN "throws"
    ELSE IF signature.kind = "short" \/ Bech32Key(publicKey.val) = 4
    THEN "throws"
    ELSE IF /\ signature.signer = Bech32Key(publicKey.val)
            /\ signature.msg = message
    THEN "true"
    ELSE "false"

\* verifySignature without its catch block.
verifyUncaught(outcome) == outcome

\* catch (err) { ...; return false }
verifyCaught(outcome) == IF outcome = "throws" THEN "false" ELSE outcome

verifyOutcome(message, signature, publicKey) ==
    verifyCaught(verifyTry(message, signature, publicKey))

verifySignature(message, signature, publicKey) ==
    verifyOutcome(message, signature, publicKey) = "true"

\* The raw bytes of a public key, as one element of a message.
KeyBytes == <<"key1", "key2", "key3", "key4">>

\* concatBytes(pubBytes, utf8ToBytes(ts.toString()), utf8ToBytes(nonce)): the
\* message of the server that takes hex fields.
MessageWithKey(publicKey, timestamp, nonce) ==
    <<KeyBytes[Bech32Key(publicKey.val)]>> \o TemplateString(timestamp)
        \o TemplateString(nonce)

\* The message without its delimiter.
MessageUndelimited(timestamp, nonce) ==
    TemplateString(timestamp) \o TemplateString(nonce)

\* const message = `${timestamp}:${nonce}`
Message(timestamp, nonce) ==
    TemplateString(timestamp) \o <<":">> \o TemplateString(nonce)

\* bytesToHex(blake3(utf8ToBytes(publicKey))): one hex string per key string.
UserHash(publicKey) == <<"blake3">> \o publicKey.val

(* ------------------------ cardinality estimator ------------------------ *)
\* The first 8 bytes of blake3(utf8ToBytes(element)) for the elements of the
\* model: two digests of register 5 with ranks 3 and 1, one whose high-order
\* field is all zero, one of register 7 with rank 2, one of register 9; and
\* for the key strings themselves, of registers 11 and 12; for the stored
\* identifiers of the HMAC server, of registers 13 and 14.
Blake3Digest(element) ==
    IF element = <<"blake3", "k1">> THEN <<32, 0, 0, 0, 0, 0, 0, 5>>
    ELSE IF element = <<"blake3", "K1">> THEN <<8, 0, 0, 0, 0, 0, 0, 9>>
    ELSE IF element = <<"k1">> THEN <<4, 0, 0, 0, 0, 0, 0, 11>>
    ELSE IF element = <<"k2">> THEN <<2, 0, 0, 0, 0, 0, 0, 12>>
    ELSE IF element = <<"hmac", "k1">> THEN <<16, 0, 0, 0, 0, 0, 0, 13>>
    ELSE IF element = <<"hmac", "k2">> THEN <<1, 0, 0, 0, 0, 0, 0, 14>>
    ELSE IF element = <<"blake3", "k2">> THEN <<128, 0, 0, 0, 0, 0, 0, 5>>
    ELSE IF element = <<"blake3", "k3">> THEN <<0, 0, 0, 0, 0, 0, 1, 7>>
    ELSE <<64, 0, 0, 0, 0, 0, 4, 7>>

Elements == {<<"blake3", "k1">>, <<"blake3", "k2">>, <<"blake3", "k3">>,
             <<"blake3", "k4">>, <<"blake3", "K1">>}

\* The 8 bits of a byte, most significant first.
ByteBits(b) == [i \in 1..8 |-> (b \div (2 ^ (8 - i))) % 2]

RECURSIVE BitsOf(_)
\* v = (v << 8n) | BigInt(digest[i]) for i = 0..7, as its 64 binary digits.
BitsOf(bytes) == IF bytes = <<>> THEN <<>>
                 ELSE ByteBits(Head(bytes)) \o BitsOf(Tail(bytes))

RECURSIVE BitsVal(_)
BitsVal(bits) == IF bits = <<>> THEN 0
                 ELSE (2 * BitsVal(SubSeq(bits, 1, Len(bits) - 1))) + bits[Len(bits)]

\* secondBin.indexOf('1'): the 0-based position of the first 1, or -1.
IndexOfOne(bits) ==
    IF \A i \in 1..Len(bits) : bits[i] = 0 THEN 0 - 1
    ELSE (CHOOSE i \in 1..Len(bits) :
              bits[i] = 1 /\ \A j \in 1..(i - 1) : bits[j] = 0) - 1

EmptyHLL == [i \in {} |-> 0]     \* new HyperLogLog(HLL_REGISTERS)

Register(hll, i) == IF i \in DOMAIN hll THEN hll[i] ELSE 0

Max(a, b) == IF a >= b THEN a ELSE b

registerIndexOf(element) ==
    BitsVal(SubSeq(BitsOf(Blake3Digest(element)),
                   65 - NB_BYTES_PER_HASH, 64))

\* The rank taken from the least-significant set bit of the remainder field:
\* 1 plus its distance from the bit next to the register-index field.
rhoOfLowestSetBit(element) ==
    LET k == 64 - NB_BYTES_PER_HASH
        secondBin == SubSeq(BitsOf(Blake3Digest(element)), 1, k)
    IN IF \A i \in 1..k : secondBin[i] = 0 THEN k
       ELSE 1 + (k - (CHOOSE i \in 1..k :
                          secondBin[i] = 1 /\ \A j \in (i + 1)..k : secondBin[j] = 0))

rhoOf(element) ==
    LET k == 64 - NB_BYTES_PER_HASH
        secondBin == SubSeq(BitsOf(Blake3Digest(element)), 1, k)
        idx == IndexOfOne(secondBin)
    IN IF idx = 0 - 1 THEN k ELSE idx + 1

\* The key strings, as elements a handler adds without deriving an
\* identifier.
RawElements == PublicKeyStrings

\* bytesToHex(hmac(sha256, SERVER_SECRET, hexToBytes(pubkeyHex))): one hex
\* string per key.
deriveStoredId(pub) == <<"hmac">> \o pub.val

HmacElements == {<<"hmac">> \o k : k \in PublicKeyStrings}

\* The register index and the rank of each element of the model, computed
\* once.
HashOf == [e \in Elements \cup RawElements \cup HmacElements |->
              [registerIndex |-> registerIndexOf(e), rho |-> rhoOf(e)]]

\* customHllUpdate with the rank added to the register instead of the maximum
\* taken.
customHllUpdateAccumulates(hll, element) ==
    (HashOf[element].registerIndex
         :> (Register(hll, HashOf[element].registerIndex)
                 + HashOf[element].rho)) @@ hll

\* customHllUpdate with the rank stored in the register whatever it holds.
customHllUpdateOverwrites(hll, element) ==
    (HashOf[element].registerIndex :> HashOf[element].rho) @@ hll

customHllUpdate(hll, element) ==
    LET registerIndex == HashOf[element].registerIndex
        rho == HashOf[element].rho
    IN (registerIndex :> Max(Register(hll, registerIndex), rho)) @@ hll

\* merge with the other estimator's non-zero registers copied over the
\* receiver's instead of the maximum taken.
mergeOverwrites(a, b) == b @@ a

\* HyperLogLog.merge of the bloom-filters library: the pointwise maximum of
\* two register arrays of the same length.
merge(a, b) ==
    [i \in (DOMAIN a) \cup (DOMAIN b) |-> Max(Register(a, i), Register(b, i))]

(* -------------------------- membership filter -------------------------- *)
\* The bit positions the filter probes for an element.  The probes of k3 all
\* fall on a bit that k1 sets: a false positive once k1 has been added.
BloomPositions(element) ==
    IF element = <<"blake3", "k1">> THEN {1, 2}
    ELSE IF element = <<"blake3", "K1">> THEN {7, 8}
    ELSE IF element = <<"k1">> THEN {9, 10}
    ELSE IF element = <<"k2">> THEN {11, 12}
    ELSE IF element = <<"blake3", "k2">> THEN {3, 4}
    ELSE IF element = <<"blake3", "k3">> THEN {2}
    ELSE {5, 6}

EmptyBloom == {}                 \* new ScalableBloomFilter()
BloomHas(bloom, element) == BloomPositions(element) \subseteq bloom
BloomAdd(bloom, element) == bloom \cup BloomPositions(element)

(* ----------------------------- date keys ------------------------------- *)
\* new Date().toISOString().split('T')[0]: the UTC day, as days since
\* 1970-01-01.
getDateKey(ms) == ms \div MS_PER_DAY

\* getWeekKey: Math.ceil((days since Jan 1 + start.getDay() + 1) / 7) of the
\* day's year.  1970-01-01 is a Thursday (getDay() = 4) and 1969-01-01 a
\* Wednesday (getDay() = 3).  The weeks of 1970 are numbered from 1; a week of
\* 1969 is numbered 53 lower, so that 1969-W53 is 0 and no two keys meet.
getWeekKey(day) ==
    IF day >= 0 THEN (day + 4 + 1 + 6) \div 7
    ELSE ((day + 365 + 3 + 1 + 6) \div 7) - 53

\* getMonthKey for a day of December 1969 (0), January (1) or February 1970.
getMonthKey(day) == IF day < 0 THEN 0 ELSE IF day < 31 THEN 1 ELSE 2

(* ------------------------------- state --------------------------------- *)
VARIABLES
    now,                \* Date.now() of the server, in ms
    sweepDue,           \* the 30 s interval of the nonce sweep has elapsed
    usedNonces,         \* Map nonce -> time the ping was accepted
    allHLL,             \* the global estimator
    allBloom,           \* the global membership filter
    dailyFiles,         \* data/daily/<day>.hll.json: day -> [hll, newUsersHll]
    weeklyFiles,        \* data/weekly/<week>.hll.json: week -> registers
    monthlyFiles,       \* data/monthly/<month>.hll.json: month -> registers
    pendingAggregates,  \* the setImmediate queue of updateAggregates(dateKey)
    saved,              \* stats.json of the HMAC server, as last written
    accepted,           \* history: the pings answered with success, in order
    last                \* history: the request handled last and its response

vars == <<now, sweepDue, usedNonces, allHLL, allBloom, dailyFiles, weeklyFiles,
          monthlyFiles, pendingAggregates, saved, accepted, last>>

\* A Map key: a string is looked up by value, an array by identity (id is the
\* number of the request whose body held it; no two requests share an object).
NonceKey(nonce, id) ==
    [kind |-> nonce.kind, val |-> nonce.val,
     id |-> IF nonce.kind = "array" THEN id ELSE 0]

MapHas(map, key) == key \in DOMAIN map
MapSet(map, key, value) == (key :> value) @@ map

\* The identity a request's nonce has while the request is handled.
FreshId == Len(accepted) + 1

NoStep == [op |-> "none", status |-> 0, rejectedBy |-> "none", checks |-> <<>>,
           firstFailing |-> "none", heldExpired |-> FALSE, sigValid |-> FALSE,
           malformed |-> {}]

(* ------------------------- POST /ingest: checks ------------------------ *)
\* The handler with the signature verified before the nonce is looked up.
ingestChecksSignatureFirst(publicKey, timestamp, nonce, signature, nowMs, nonces, id) ==
    IF Falsy(publicKey) \/ Falsy(timestamp) \/ Falsy(nonce)
       \/ signature.kind = "undefined"
    THEN [status |-> 400, rejectedBy |-> "fields", checks |-> <<"fields">>]
    ELSE IF AbsDiffExceeds(nowMs, ParsedTimestamp[TemplateString(timestamp)],
                           NONCE_WINDOW_MS)
    THEN [status |-> 400, rejectedBy |-> "timestamp",
          checks |-> <<"fields", "timestamp">>]
    ELSE IF ~verifySignature(Message(timestamp, nonce), signature, publicKey)
    THEN [status |-> 401, rejectedBy |-> "signature",
          checks |-> <<"fields", "timestamp", "signature">>]
    ELSE IF MapHas(nonces, NonceKey(nonce, id))
    THEN [status |-> 400, rejectedBy |-> "nonce",
          checks |-> <<"fields", "timestamp", "signature", "nonce">>]
    ELSE [status |-> 200, rejectedBy |-> "none",
          checks |-> <<"fields", "timestamp", "signature", "nonce">>]

\* The rejection checks of the handler, in the order it runs them: what it
\* answers and which checks it evaluated.
ingestChecks(publicKey, timestamp, nonce, signature, nowMs, nonces, id) ==
    IF Falsy(publicKey) \/ Falsy(timestamp) \/ Falsy(nonce)
       \/ signature.kind = "undefined"
    THEN [status |-> 400, rejectedBy |-> "fields", checks |-> <<"fields">>]
    ELSE IF AbsDiffExceeds(nowMs, ParsedTimestamp[TemplateString(timestamp)],
                           NONCE_WINDOW_MS)
    THEN [status |-> 400, rejectedBy |-> "timestamp",
          checks |-> <<"fields", "timestamp">>]
    ELSE IF MapHas(nonces, NonceKey(nonce, id))
    THEN [status |-> 400, rejectedBy |-> "nonce",
          checks |-> <<"fields", "timestamp", "nonce">>]
    ELSE IF verifyOutcome(Message(timestamp, nonce), signature, publicKey)
            = "throws"                     \* the catch block of the handler
    THEN [status |-> 500, rejectedBy |-> "internal",
          checks |-> <<"fields", "timestamp", "nonce", "signature">>]
    ELSE IF ~verifySignature(Message(timestamp, nonce), signature, publicKey)
    THEN [status |-> 401, rejectedBy |-> "signature",
          checks |-> <<"fields", "timestamp", "nonce", "signature">>]
    ELSE [status |-> 200, rejectedBy |-> "none",
          checks |-> <<"fields", "timestamp", "nonce", "signature">>]

\* The encoded fields of a request body that are present and malformed: a
\* public key or a signature that is no bech32 string, or decodes to bytes of
\* the wrong length.
MalformedEncodings(publicKey, signature) ==
    {f \in {"publicKey", "signature"} :
        \/ f = "publicKey" /\ ~Falsy(publicKey)
              /\ (publicKey.kind # "string"
                  \/ Bech32Key(publicKey.val) \notin 1..3)
        \/ f = "signature" /\ signature.kind \in {"garbage", "short"}}

\* What is true of a request when it arrives, whatever the handler does with
\* it: the first check of the documented order it fails ("none" if it passes
\* all four), whether its nonce is recorded with an entry older than the
\* replay window, and, for a body with all four fields, which of its encoded
\* fields are malformed.
RequestFacts(publicKey, timestamp, nonce, signature) ==
    LET key == NonceKey(nonce, FreshId)
        missing == Falsy(publicKey) \/ Falsy(timestamp) \/ Falsy(nonce)
                   \/ signature.kind = "undefined"
        stale == AbsDiffExceeds(now, ParsedTimestamp[TemplateString(timestamp)],
                                NONCE_WINDOW_MS)
        held == MapHas(usedNonces, key)
    IN [firstFailing |->
            IF missing THEN "fields"
            ELSE IF stale THEN "timestamp"
            ELSE IF held THEN "nonce"
            ELSE IF ~verifySignature(Message(timestamp, nonce), signature,
                                     publicKey)
            THEN "signature"
            ELSE "none",
        heldExpired |-> held /\ (now - usedNonces[key] > NONCE_WINDOW_MS),
        sigValid |-> ~missing /\ verifySignature(Message(timestamp, nonce),
                                                 signature, publicKey),
        malformed |-> IF missing THEN {}
                      ELSE MalformedEncodings(publicKey, signature)]

\* The guard with a replayed nonce marked again, at the time of the replay.
noncesAfterMarksReplay(nonces, rejectedBy, key, nowMs) ==
    IF rejectedBy \in {"none", "nonce"} THEN MapSet(nonces, key, nowMs)
    ELSE nonces

\* The guard with the nonce marked before the signature is verified.
noncesAfterMarksUnverified(nonces, rejectedBy, key, nowMs) ==
    IF rejectedBy \in {"none", "signature"} THEN MapSet(nonces, key, nowMs)
    ELSE nonces

\* The guard with the nonce of an accepted ping never marked.
noncesAfterNotMarked(nonces, rejectedBy, key, nowMs) == nonces

\* The nonce guard when the handler returns: only a ping that passed all four
\* checks is marked as used, with the time read at the top of the handler.
noncesAfter(nonces, rejectedBy, key, nowMs) ==
    IF rejectedBy = "none" THEN MapSet(nonces, key, nowMs) ELSE nonces

(* --------------------------- daily structures -------------------------- *)
getDailyData(dateKey) ==
    IF dateKey \in DOMAIN dailyFiles THEN dailyFiles[dateKey]
    ELSE [hll |-> EmptyHLL, newUsersHll |-> EmptyHLL]

loadHLL(files, key) == IF key \in DOMAIN files THEN files[key] ELSE EmptyHLL

\* The new-user test made after the identifier has been added.
isNewUserAfterAdd(bloom, userHash) ==
    ~BloomHas(BloomAdd(bloom, userHash), userHash)

\* Check if new user globally.
isNewUserOf(bloom, userHash) == ~BloomHas(bloom, userHash)

\* The daily structures with the new-users estimator updated for every ping.
updatedDailyCountsAllAsNew(dailyData, userHash, isNewUser) ==
    [hll |-> customHllUpdate(dailyData.hll, userHash),
     newUsersHll |-> customHllUpdate(dailyData.newUsersHll, userHash)]

\* The daily structures with the all-users estimator updated for new users
\* only, and the new-users estimator for every ping.
updatedDailyNewOnly(dailyData, userHash, isNewUser) ==
    [hll |-> IF isNewUser THEN customHllUpdate(dailyData.hll, userHash)
             ELSE dailyData.hll,
     newUsersHll |-> customHllUpdate(dailyData.newUsersHll, userHash)]

\* The daily structures after the handler's updates.
updatedDaily(dailyData, userHash, isNewUser) ==
    [hll |-> customHllUpdate(dailyData.hll, userHash),
     newUsersHll |-> IF isNewUser
                     THEN customHllUpdate(dailyData.newUsersHll, userHash)
                     ELSE dailyData.newUsersHll]

(* ------------------------------ actions -------------------------------- *)
\* No stats.json: the HMAC server has written nothing yet.  pings counts the
\* accepted pings a snapshot reflects.
NoSnapshot == [daily |-> [d \in {} |-> 0], allTime |-> EmptyHLL,
               seenAll |-> EmptyBloom, pings |-> 0]

Init ==
    /\ now = StartMs
    /\ sweepDue = FALSE
    /\ usedNonces = [k \in {} |-> 0]
    /\ allHLL = EmptyHLL
    /\ allBloom = EmptyBloom
    /\ dailyFiles = [d \in {} |-> 0]
    /\ weeklyFiles = [w \in {} |-> 0]
    /\ monthlyFiles = [m \in {} |-> 0]
    /\ pendingAggregates = <<>>
    /\ saved = NoSnapshot
    /\ accepted = <<>>
    /\ last = NoStep

\* The three writes of the handler, in the order it makes them; a write that
\* throws leaves its file and the ones after it as they were.
SaveSteps == <<"daily", "allHLL", "allBloom">>

Written(fault, file) ==
    \A i \in 1..Len(SaveSteps) :
        SaveSteps[i] = fault =>
            \E j \in 1..(i - 1) : SaveSteps[j] = file

\* The status of a ping that passed the checks with every write failure
\* caught where it happens.
statusAfterSavesCaught(status, fault) == status

\* The status of a ping that passed the checks: a writeFileSync that throws
\* is caught by the catch block of the handler.
statusAfterSaves(status, fault) ==
    IF status = 200 /\ fault # "none" THEN 500 ELSE status

\* app.post('/ingest') of the nonce-protected server, from the request body
\* to the response; fault names the write that throws, if one does.
IngestWrites(publicKey, timestamp, nonce, signature, fault) ==
    \E out \in {ingestChecks(publicKey, timestamp, nonce, signature, now,
                             usedNonces, FreshId)},
       facts \in {RequestFacts(publicKey, timestamp, nonce, signature)} :
        /\ UNCHANGED saved
        /\ last' = [op |-> "ingest",
                    status |-> statusAfterSaves(out.status, fault),
                    rejectedBy |-> out.rejectedBy, checks |-> out.checks,
                    firstFailing |-> facts.firstFailing,
                    heldExpired |-> facts.heldExpired,
                    sigValid |-> facts.sigValid,
                    malformed |-> facts.malformed]
        /\ usedNonces' = noncesAfter(usedNonces, out.rejectedBy,
                                     NonceKey(nonce, FreshId), now)
        /\ IF out.status # 200
           THEN UNCHANGED <<now, sweepDue, allHLL, allBloom, dailyFiles,
                            weeklyFiles, monthlyFiles, pendingAggregates,
                            accepted>>
           ELSE \E userHash \in {UserHash(publicKey)},
                   dateKey \in {getDateKey(now)} :
                \E dailyData \in {getDailyData(dateKey)},
                   isNewUser \in {isNewUserOf(allBloom, userHash)} :
                    /\ Len(accepted) < MaxAccepted
                    /\ allBloom' = BloomAdd(allBloom, userHash)
                    /\ allHLL' = customHllUpdate(allHLL, userHash)
                    /\ dailyFiles' =
                           IF Written(fault, "daily")
                           THEN (dateKey :> updatedDaily(dailyData, userHash,
                                                         isNewUser))
                                    @@ dailyFiles
                           ELSE dailyFiles
                    /\ pendingAggregates' =
                           IF fault = "none"
                           THEN Append(pendingAggregates, dateKey)
                           ELSE pendingAggregates
                    /\ accepted' = Append(accepted,
                           [publicKey |-> publicKey, timestamp |-> timestamp,
                            nonce |-> nonce, signature |-> signature,
                            at |-> now, date |-> dateKey,
                            newUser |-> isNewUser, element |-> userHash])
                    /\ UNCHANGED <<now, sweepDue, weeklyFiles, monthlyFiles>>

\* The handler when every write succeeds.
Ingest(publicKey, timestamp, nonce, signature) ==
    IngestWrites(publicKey, timestamp, nonce, signature, "none")

\* A sweep that keeps an entry for two windows.
sweptNoncesTwoWindows(map, nowMs) ==
    [k \in {n \in DOMAIN map : ~(nowMs - map[n] > 2 * NONCE_WINDOW_MS)} |->
        map[k]]

\* A sweep that also removes the entries whose age is the window itself.
sweptNoncesAtWindow(map, nowMs) ==
    [k \in {n \in DOMAIN map : nowMs - map[n] < NONCE_WINDOW_MS} |-> map[k]]

\* The setInterval callback that removes old nonces.
sweptNonces(map, nowMs) ==
    [k \in {n \in DOMAIN map : ~(nowMs - map[n] > NONCE_WINDOW_MS)} |-> map[k]]

Sweep ==
    /\ sweepDue
    /\ pendingAggregates = <<>>
    /\ sweepDue' = FALSE
    /\ usedNonces' = sweptNonces(usedNonces, now)
    /\ UNCHANGED saved
    /\ last' = NoStep
    /\ UNCHANGED <<now, allHLL, allBloom, dailyFiles, weeklyFiles,
                   monthlyFiles, pendingAggregates, accepted>>

\* An aggregate file replaced by the day's estimator.
aggregatedOnce(files, key, hll) ==
    IF key \in DOMAIN files THEN files ELSE (key :> hll) @@ files

aggregatedOverwrites(files, key, hll) == (key :> hll) @@ files

\* The aggregate files after loadHLL(path), merge(dailyData.hll) and
\* saveHLL(path, ...).
aggregated(files, key, hll) == (key :> merge(loadHLL(files, key), hll)) @@ files

\* updateAggregates(dateKey), run by setImmediate after the response.
UpdateAggregates ==
    /\ pendingAggregates # <<>>
    /\ LET dateKey == Head(pendingAggregates)
           weekKey == getWeekKey(dateKey)
           monthKey == getMonthKey(dateKey)
           dailyData == getDailyData(dateKey)
       IN /\ weeklyFiles' = aggregated(weeklyFiles, weekKey, dailyData.hll)
          /\ monthlyFiles' = aggregated(monthlyFiles, monthKey, dailyData.hll)
    /\ pendingAggregates' = Tail(pendingAggregates)
    /\ UNCHANGED saved
    /\ last' = NoStep
    /\ UNCHANGED <<now, sweepDue, usedNonces, allHLL, allBloom, dailyFiles,
                   accepted>>

\* Time passes: one sweep interval.
Tick ==
    /\ now < EndMs
    /\ pendingAggregates = <<>>
    /\ now' = now + TickMs
    /\ sweepDue' = TRUE
    /\ UNCHANGED saved
    /\ last' = NoStep
    /\ UNCHANGED <<usedNonces, allHLL, allBloom, dailyFiles, weeklyFiles,
                   monthlyFiles, pendingAggregates, accepted>>

(* ---------------------------- GET /api/stats --------------------------- *)
\* Estimates are fixed-point numbers, in units of 1/10000.
EstimateUnit == 10 ^ 4

Min(a, b) == IF a <= b THEN a ELSE b

\* HyperLogLog.count(): the estimate of spec 4.2 in its small range, the
\* linear count m * ln(m / V) for V registers at zero, summed as the series
\* z + z^2 / 2m + z^3 / 3m^2 of z = m - V and rounded down.  No estimator of
\* the model leaves the small range: fewer than ten registers are ever set.
count(hll) ==
    LET z == Cardinality({i \in DOMAIN hll : hll[i] > 0})
    IN (z * EstimateUnit)
       + ((z * z * EstimateUnit) \div (2 * HLL_REGISTERS))
       + ((z * z * z * EstimateUnit) \div (3 * HLL_REGISTERS * HLL_REGISTERS))

\* Math.round of a non-negative estimate: the nearest integer.
round(x) == (x + (EstimateUnit \div 2)) \div EstimateUnit

\* readdirSync('data/daily').filter(...).sort().reverse(): the days that have
\* a file, the most recent first.
sortedReverse(days) ==
    [i \in 1..Cardinality(days) |->
        CHOOSE d \in days : Cardinality({e \in days : e > d}) = i - 1]

\* recentDays: the estimates of the 30 most recent days.
recentDaysOf(files) ==
    [i \in 1..Min(30, Len(files)) |->
        [date |-> files[i],
         dau |-> count(getDailyData(files[i]).hll),
         newUsers |-> count(getDailyData(files[i]).newUsersHll)]]

RECURSIVE mergedDays(_, _)
\* files.slice(0, n).forEach(...): a copy of the first day's estimator, with
\* the estimators of the next n - 1 days merged into it one after the other;
\* a new estimator when n = 0.
mergedDays(files, n) ==
    IF n = 0 THEN EmptyHLL
    ELSE IF n = 1 THEN getDailyData(files[1]).hll
    ELSE merge(mergedDays(files, n - 1), getDailyData(files[n]).hll)

\* The window's estimator taken from its most recent day alone.
windowHLLFirstDayOnly(files, days) ==
    mergedDays(files, Min(1, Min(days, Len(files))))

\* wauHLL and mauHLL: the merge of up to `days` most recent days.
windowHLL(files, days) == mergedDays(files, Min(days, Len(files)))

NoRetention == [null |-> TRUE, cohortDate |-> 0, returnDate |-> 0,
                cohortSize |-> 0, returnedUsers |-> 0, retentionRate |-> 0]

\* retained = Math.max(0, cohortSize + returnSize - unionSize), without the
\* clamp.
retainedUnclamped(cohortSize, returnSize, unionSize) ==
    (cohortSize + returnSize) - unionSize

retainedOf(cohortSize, returnSize, unionSize) ==
    Max(0, (cohortSize + returnSize) - unionSize)

\* Math.round(rate * 100) / 100 for rate = retained / cohortSize * 100 (0 when
\* cohortSize is 0): the rate in hundredths of a percent.
rateOf(retained, cohortSize) ==
    IF cohortSize > 0
    THEN ((2 * retained * 10000) + cohortSize) \div (2 * cohortSize)
    ELSE 0

\* The union estimator left as it was created.
unionOfNothing(cohortHll, returnHll) == EmptyHLL

\* unionHLL: a new estimator with the cohort day's and the return day's
\* estimators merged into it.
unionOf(cohortHll, returnHll) == merge(merge(EmptyHLL, cohortHll), returnHll)

\* calcRetention(cohortIdx, returnIdx); the indices count from 0.
calcRetention(files, cohortIdx, returnIdx) ==
    IF Len(files) <= Max(cohortIdx, returnIdx) THEN NoRetention
    ELSE LET cohortDate == files[cohortIdx + 1]
             returnDate == files[returnIdx + 1]
             cohortHll == getDailyData(cohortDate).hll
             returnHll == getDailyData(returnDate).hll
             cohortSize == count(cohortHll)
             returnSize == count(returnHll)
             unionSize == count(unionOf(cohortHll, returnHll))
             retained == retainedOf(cohortSize, returnSize, unionSize)
         IN [null |-> FALSE, cohortDate |-> cohortDate,
             returnDate |-> returnDate,
             cohortSize |-> round(cohortSize),
             returnedUsers |-> round(retained),
             retentionRate |-> rateOf(retained, cohortSize)]

\* The retention with a record of zeros where there are too few days.
retentionOfZeroFilled(files) ==
    LET zero == [NoRetention EXCEPT !.null = FALSE]
    IN [d1 |-> IF Len(files) >= 2 THEN calcRetention(files, 1, 0) ELSE zero,
        d7 |-> IF Len(files) >= 2
               THEN calcRetention(files, Min(7, Len(files) - 1), 0) ELSE zero,
        d30 |-> IF Len(files) >= 2
                THEN calcRetention(files, Min(30, Len(files) - 1), 0) ELSE zero]

\* Adaptive retention: use available data.
retentionOf(files) ==
    [d1 |-> IF Len(files) >= 2 THEN calcRetention(files, 1, 0)
            ELSE NoRetention,
     d7 |-> IF Len(files) >= 2
            THEN calcRetention(files, Min(7, Len(files) - 1), 0)
            ELSE NoRetention,
     d30 |-> IF Len(files) >= 2
             THEN calcRetention(files, Min(30, Len(files) - 1), 0)
             ELSE NoRetention]

\* app.get('/api/stats'): the response body.
statsResponse ==
    LET files == sortedReverse(DOMAIN dailyFiles)
    IN [allTime |-> count(allHLL),
        wau |-> count(windowHLL(files, 7)),
        mau |-> count(windowHLL(files, 30)),
        recentDays |-> recentDaysOf(files),
        retention |-> retentionOf(files)]

Stats ==
    /\ UNCHANGED saved
    /\ last' = [op |-> "stats", status |-> 200, response |-> statsResponse]
    /\ UNCHANGED <<now, sweepDue, usedNonces, allHLL, allBloom, dailyFiles,
                   weeklyFiles, monthlyFiles, pendingAggregates, accepted>>

(* ------------------- POST /ingest of the unsigned draft ---------------- *)
\* getDailyStructures(dateKey) of the draft that takes only a public key.
getDailyStructures(dateKey) ==
    IF dateKey \in DOMAIN dailyFiles THEN dailyFiles[dateKey]
    ELSE [hll |-> EmptyHLL, bloom |-> EmptyBloom, count |-> 0]

\* A handler that adds the identifier derived from the key.
hashedElementOf(pub) == UserHash(pub)

\* The value the draft passes to seenAll.add, daily.bloom.add and
\* customHllUpdate: the pub field of the request body as it came.
addedElementOf(pub) == pub.val

\* app.post('/ingest') of the draft, from the request body to the response.
IngestUnsigned(pub) ==
    IF Falsy(pub)
    THEN /\ UNCHANGED saved
         /\ last' = [op |-> "ingestUnsigned", status |-> 400,
                     newUser |-> FALSE, dailyCount |-> 0]
         /\ UNCHANGED <<now, sweepDue, usedNonces, allHLL, allBloom,
                        dailyFiles, weeklyFiles, monthlyFiles,
                        pendingAggregates, accepted>>
    ELSE \E dateKey \in {getDateKey(now)}, element \in {addedElementOf(pub)} :
         \E daily \in {getDailyStructures(dateKey)} :
         \E knownGlobally \in {BloomHas(allBloom, element)},
            knownToday \in {BloomHas(daily.bloom, element)} :
         \E dailyCount \in {IF knownToday THEN daily.count
                          ELSE daily.count + 1} :
            /\ Len(accepted) < MaxAccepted
            /\ allBloom' = BloomAdd(allBloom, element)
            /\ allHLL' = customHllUpdate(allHLL, element)
            /\ dailyFiles' =
                   (dateKey :> [hll |-> customHllUpdate(daily.hll, element),
                                bloom |-> BloomAdd(daily.bloom, element),
                                count |-> dailyCount]) @@ dailyFiles
            /\ accepted' = Append(accepted,
                   [publicKey |-> pub, at |-> now, date |-> dateKey,
                    newUser |-> ~knownGlobally, element |-> element])
            /\ UNCHANGED saved
            /\ last' = [op |-> "ingestUnsigned", status |-> 200,
                        newUser |-> ~knownGlobally,
                        dailyCount |-> dailyCount]
            /\ UNCHANGED <<now, sweepDue, usedNonces, weeklyFiles,
                           monthlyFiles, pendingAggregates>>

\* Time passes on a server that has no timers, once the deferred tasks have
\* run.
ClockAdvances ==
    /\ now < EndMs
    /\ pendingAggregates = <<>>
    /\ now' = now + TickMs
    /\ UNCHANGED saved
    /\ last' = NoStep
    /\ UNCHANGED <<sweepDue, usedNonces, allHLL, allBloom, dailyFiles,
                   weeklyFiles, monthlyFiles, pendingAggregates, accepted>>

(* -------------------- POST /ingest of the HMAC server ------------------ *)
TIMESTAMP_WINDOW == 120

\* hexToBytes(pub): the key strings of the model stand for the hex strings of
\* the same keys; 0 stands for a string hexToBytes throws on.
HexKey(s) == IF s \in PublicKeyStrings THEN Bech32Key(s) ELSE 0

\* HyperLogLog.update of the estimator library: the register of the element
\* is raised to its rank.
update(hll, element) ==
    (HashOf[element].registerIndex
        :> Max(Register(hll, HashOf[element].registerIndex),
               HashOf[element].rho)) @@ hll

\* initDay(day).
initDay(daily, day) ==
    IF day \in DOMAIN daily THEN daily
    ELSE (day :> [hll |-> EmptyHLL, bloom |-> EmptyBloom]) @@ daily

\* The checks of the handler in the order it runs them; ts is a number of
\* seconds.
hmacChecks(pub, ts, nonce, sig, nowSeconds) ==
    IF Falsy(pub) \/ ts = 0 \/ Falsy(nonce) \/ sig.kind = "undefined"
    THEN 400
    ELSE IF (nowSeconds - ts > TIMESTAMP_WINDOW)
            \/ (ts - nowSeconds > TIMESTAMP_WINDOW)
    THEN 400
    ELSE IF HexKey(pub.val) = 0 \/ sig.kind # "sig"      \* hexToBytes throws
    THEN 500
    ELSE IF ~(/\ sig.signer = HexKey(pub.val)
              /\ sig.msg = MessageWithKey(pub, Str(DecStr(ts)), nonce))
    THEN 400
    ELSE 200

\* setImmediate(() => saveStats()).
deferred(queue, task) == Append(queue, task)

\* app.post('/ingest') of the HMAC server, from the request body to the
\* response.
IngestHmac(pub, ts, nonce, sig) ==
    \E status \in {hmacChecks(pub, ts, nonce, sig, now \div 1000)} :
        /\ last' = [op |-> "ingestHmac", status |-> status]
        /\ IF status # 200
           THEN UNCHANGED <<now, sweepDue, usedNonces, allHLL, allBloom,
                            dailyFiles, weeklyFiles, monthlyFiles,
                            pendingAggregates, saved, accepted>>
           ELSE \E storedId \in {deriveStoredId(pub)},
                   day \in {getDateKey(now)} :
                \E daily \in {initDay(dailyFiles, day)} :
                    /\ Len(accepted) < MaxAccepted
                    /\ dailyFiles' =
                           (day :> [hll |-> update(daily[day].hll, storedId),
                                    bloom |-> BloomAdd(daily[day].bloom,
                                                       storedId)]) @@ daily
                    /\ allHLL' = update(allHLL, storedId)
                    /\ allBloom' = BloomAdd(allBloom, storedId)
                    /\ pendingAggregates' =
                           deferred(pendingAggregates, "saveStats")
                    /\ accepted' = Append(accepted,
                           [publicKey |-> pub, timestamp |-> ts,
                            nonce |-> nonce, signature |-> sig, at |-> now,
                            date |-> day, element |-> storedId])
                    /\ UNCHANGED <<now, sweepDue, usedNonces, weeklyFiles,
                                   monthlyFiles, saved>>

\* saveStats(), run from the setImmediate queue: the whole of the in-memory
\* statistics is written.
SaveStats ==
    /\ pendingAggregates # <<>>
    /\ pendingAggregates' = Tail(pendingAggregates)
    /\ saved' = [daily |-> dailyFiles, allTime |-> allHLL,
                 seenAll |-> allBloom, pings |-> Len(accepted)]
    /\ last' = NoStep
    /\ UNCHANGED <<now, sweepDue, usedNonces, allHLL, allBloom, dailyFiles,
                   weeklyFiles, monthlyFiles, accepted>>

(* -------------------- GET /api/stats of the HMAC server ---------------- *)
\* The estimator objects the handler touches: the live estimator of a day,
\* stats.daily[d].hll, and the two estimators it creates.
LiveDay(d) == <<"daily", d>>

WauHLL == <<"wauHLL">>

MauHLL == <<"mauHLL">>

\* The objects as the handler finds them.
statsObjects ==
    [o \in {LiveDay(d) : d \in DOMAIN dailyFiles} \cup {WauHLL, MauHLL} |->
        IF Len(o) = 1 THEN EmptyHLL ELSE dailyFiles[o[2]].hll]

\* receiver.merge(argument) on objects: the receiver takes the pointwise
\* maximum, the argument is left alone.
mergeInto(objects, receiver, argument) ==
    [objects EXCEPT ![receiver] = merge(objects[receiver], objects[argument])]

\* A handler that takes the window's first day's live estimator for the
\* window's estimator, with no copy made.
receiverFirstDay(created, window) == LiveDay(window[1])

\* wauHLL.merge(stats.daily[d].hll): the receiver is the estimator the
\* handler created.
receiverOf(created, window) == created

\* Object.keys(stats.daily).sort(): the days in ascending order.
sortedDays(days) ==
    [i \in 1..Cardinality(days) |->
        CHOOSE d \in days : Cardinality({e \in days : e < d}) = i - 1]

\* days.slice(Math.max(0, idx - (span - 1)), idx + 1), for the idx-th day
\* counted from 1.
windowDays(days, idx, span) == SubSeq(days, Max(1, idx - (span - 1)), idx)

\* window.forEach(d => created.merge(stats.daily[d].hll)) up to the n-th day
\* of the window, after created = new HyperLogLog(HLL_REGISTERS).
RECURSIVE mergeEach(_, _, _, _)
mergeEach(objects, created, window, n) ==
    IF n = 0 THEN [objects EXCEPT ![created] = EmptyHLL]
    ELSE mergeInto(mergeEach(objects, created, window, n - 1),
                   receiverOf(created, window), LiveDay(window[n]))

\* The objects after the WAU merges of the idx-th day.
RECURSIVE afterWau(_, _)
\* The objects after the MAU merges of the idx-th day.
RECURSIVE afterMau(_, _)
afterWau(days, idx) ==
    LET window == windowDays(days, idx, 7)
    IN mergeEach(afterMau(days, idx - 1), WauHLL, window, Len(window))

afterMau(days, idx) ==
    IF idx = 0 THEN statsObjects
    ELSE LET window == windowDays(days, idx, 30)
         IN mergeEach(afterWau(days, idx), MauHLL, window, Len(window))

\* The response body.
statsHmacResponse(days) ==
    [dau |-> [i \in 1..Len(days) |->
                  count(afterMau(days, i - 1)[LiveDay(days[i])])],
     wau |-> [i \in 1..Len(days) |->
                  count(afterWau(days, i)
                            [receiverOf(WauHLL, windowDays(days, i, 7))])],
     mau |-> [i \in 1..Len(days) |->
                  count(afterMau(days, i)
                            [receiverOf(MauHLL, windowDays(days, i, 30))])],
     total |-> count(allHLL)]

\* app.get('/api/stats') of the HMAC server: the live estimators are the
\* objects the handler leaves behind.
StatsHmac ==
    \E days \in {sortedDays(DOMAIN dailyFiles)} :
        \E objects \in {afterMau(days, Len(days))} :
            /\ dailyFiles' =
                   [d \in DOMAIN dailyFiles |->
                       [dailyFiles[d] EXCEPT !.hll = objects[LiveDay(d)]]]
            /\ last' = [op |-> "statsHmac", status |-> 200,
                        response |-> statsHmacResponse(days)]
            /\ UNCHANGED <<now, sweepDue, usedNonces, allHLL, allBloom,
                           weeklyFiles, monthlyFiles, pendingAggregates,
                           saved, accepted>>

(* ------------------------------ requests ------------------------------- *)
\* Claimed timestamps: stale, half a window old, and a full window ahead of
\* the server clock; and a string that is no number.
TimestampInputs ==
    {Str(<<"a", "b", "c">>)} \cup {Str(DecStr(now + d)) : d \in TimestampOffsets}

\* A nonce sent as a JSON string, or as a JSON array of one string.
NonceInputs == {Str(<<"a">>), Arr(<<"a">>)}

\* A client signs the message of its own request with the key it sends, or
\* sends a string that is no signature.
SignatureInputs(publicKey, timestamp, nonce) ==
    {GarbageSig, Sign(Bech32Key(publicKey.val), Message(timestamp, nonce))}

\* Request bodies with one of the four fields missing; the fields present
\* fail the later checks as well once the nonce is recorded.
MissingFieldInputs ==
    LET body == [publicKey |-> Str(<<"k1">>),
                 timestamp |-> Str(DecStr(now + StaleOffset)),
                 nonce |-> Str(<<"a">>), signature |-> GarbageSig]
    IN {[body EXCEPT !.publicKey = Undefined],
        [body EXCEPT !.timestamp = Undefined],
        [body EXCEPT !.nonce = Undefined],
        [body EXCEPT !.signature = NoSig]}

\* Request bodies whose public key or signature is a string that is no key
\* or no signature, or no string at all, next to a signature that does
\* decode.
MalformedEncodingInputs(timestamp, nonce) ==
    {[publicKey |-> publicKey, timestamp |-> timestamp, nonce |-> nonce,
      signature |-> signature] :
        <<publicKey, signature>> \in
            {<<Str(UndecodableKey), Sign(1, Message(timestamp, nonce))>>,
             <<Str(ShortKey), Sign(1, Message(timestamp, nonce))>>,
             <<Arr(<<"k1">>), Sign(1, Message(timestamp, nonce))>>,
             <<Str(<<"k1">>), ShortSig>>,
             <<Str(<<"k1">>), GarbageSig>>}}

\* Signatures that decode and are not the signature of the request's message
\* under the request's key: of the message that starts with the key bytes, of
\* the message of another nonce, of the undelimited message, or under
\* another key.
MismatchedSignatures(publicKey, timestamp, nonce) ==
    {Sign(Bech32Key(publicKey.val),
          MessageWithKey(publicKey, timestamp, nonce)),
     Sign(Bech32Key(publicKey.val), Message(timestamp, Str(<<"z">>))),
     Sign(Bech32Key(publicKey.val), MessageUndelimited(timestamp, nonce)),
     Sign(2, Message(timestamp, nonce))}

\* Requests of one client key: every kind of timestamp, nonce and signature,
\* and bodies with a field missing.
IngestAny ==
    \/ \E timestamp \in TimestampInputs, nonce \in NonceInputs :
           \E signature \in SignatureInputs(Str(<<"k1">>), timestamp, nonce) :
               Ingest(Str(<<"k1">>), timestamp, nonce, signature)
    \/ \E body \in MissingFieldInputs :
           Ingest(body.publicKey, body.timestamp, body.nonce, body.signature)

\* Honest clients: any of the keys, the current time, a nonce never used
\* before or the one used last, the signature of the message.
IngestHonest ==
    \E publicKey \in {Str(k) : k \in PublicKeyStrings},
       timestamp \in {Str(DecStr(now))},
       nonce \in {Str(<<"n">> \o DecStr(Len(accepted) + 1)),
                  Str(<<"n">> \o DecStr(Len(accepted)))} :
        Ingest(publicKey, timestamp, nonce,
               Sign(Bech32Key(publicKey.val), Message(timestamp, nonce)))

\* The honest client of key k1.
IngestOwner ==
    \E timestamp \in {Str(DecStr(now))},
       nonce \in {Str(<<"n">> \o DecStr(Len(accepted) + 1)),
                  Str(<<"n">> \o DecStr(Len(accepted)))} :
        Ingest(Str(<<"k1">>), timestamp, nonce,
               Sign(1, Message(timestamp, nonce)))

\* Clients whose key or signature does not decode: the current time, a nonce
\* never used before or the one an honest client used last.
IngestMalformed ==
    \E timestamp \in {Str(DecStr(now))},
       nonce \in {Str(<<"a">>), Str(<<"n">> \o DecStr(Len(accepted)))} :
        \E body \in MalformedEncodingInputs(timestamp, nonce) :
            Ingest(body.publicKey, body.timestamp, body.nonce, body.signature)

\* A client whose signature is of another message or under another key.
IngestMismatched ==
    \E timestamp \in {Str(DecStr(now))}, nonce \in {Str(<<"a">>)} :
        \E signature \in MismatchedSignatures(Str(<<"k1">>), timestamp, nonce) :
            Ingest(Str(<<"k1">>), timestamp, nonce, signature)

\* The client of key k1 sending its key in lower or in upper case, with the
\* current time and a nonce never used before or the one used last.
IngestRecoded ==
    \E publicKey \in {Str(<<"k1">>), Str(UpperCaseKey)},
       timestamp \in {Str(DecStr(now))},
       nonce \in {Str(<<"n">> \o DecStr(Len(accepted) + 1)),
                  Str(<<"n">> \o DecStr(Len(accepted)))} :
        Ingest(publicKey, timestamp, nonce, Sign(1, Message(timestamp, nonce)))

Next == IngestAny \/ Sweep \/ UpdateAggregates \/ Tick

\* The nonce-protected server under requests of every kind from one key.
Spec == Init /\ [][Next]_vars

NextStats == IngestHonest \/ Sweep \/ UpdateAggregates \/ Tick \/ Stats

\* The nonce-protected server under well-formed requests from several keys.
SpecStats == Init /\ [][NextStats]_vars

NextEncodings ==
    \/ IngestMalformed
    \/ IngestMismatched
    \/ IngestOwner
    \/ Sweep
    \/ UpdateAggregates
    \/ Tick

\* The nonce-protected server under requests whose key or signature does not
\* decode or does not match, among the well-formed ones of one client.
SpecEncodings == Init /\ [][NextEncodings]_vars

\* An honest client's ping during which one of the handler's writes throws.
IngestFaulty ==
    \E publicKey \in {Str(<<"k1">>), Str(<<"k2">>)},
       timestamp \in {Str(DecStr(now))},
       nonce \in {Str(<<"n">> \o DecStr(Len(accepted) + 1))},
       i \in 1..Len(SaveSteps) :
        IngestWrites(publicKey, timestamp, nonce,
                     Sign(Bech32Key(publicKey.val), Message(timestamp, nonce)),
                     SaveSteps[i])

NextFaults ==
    IngestFaulty \/ IngestOwner \/ Sweep \/ UpdateAggregates \/ Tick

\* The nonce-protected server on a disk whose writes can fail.
SpecFaults == Init /\ [][NextFaults]_vars

\* Requests to the HMAC server: one of two keys or a string that is not hex,
\* the current second or one outside the window, the signature of the
\* message or of another.
IngestHmacAny ==
    \E pub \in {Str(<<"k1">>), Str(<<"k2">>), Str(UndecodableKey)},
       ts \in {now \div 1000, (now \div 1000) - (TIMESTAMP_WINDOW + 1)},
       nonce \in {Str(<<"a">>)} :
        \E sig \in {Sign(1, Message(Str(DecStr(ts)), nonce))}
                    \cup IF HexKey(pub.val) = 0 THEN {}
                         ELSE {Sign(HexKey(pub.val),
                                    MessageWithKey(pub, Str(DecStr(ts)),
                                                   nonce))} :
            IngestHmac(pub, ts, nonce, sig)

\* A ping the HMAC server has accepted, sent again as it was.
IngestHmacAgain ==
    \E i \in 1..Len(accepted) :
        IngestHmac(accepted[i].publicKey, accepted[i].timestamp,
                   accepted[i].nonce, accepted[i].signature)

NextHmacAgain ==
    IngestHmacAny \/ IngestHmacAgain \/ SaveStats \/ ClockAdvances

\* The HMAC server under requests that are sent a second time.
SpecHmacAgain == Init /\ [][NextHmacAgain]_vars

NextHmac == IngestHmacAny \/ SaveStats \/ StatsHmac \/ ClockAdvances

\* The HMAC server, its deferred saves interleaved with its requests.
SpecHmac == Init /\ [][NextHmac]_vars

\* Requests to the draft: one of the keys, or no key.
IngestUnsignedAny ==
    \E pub \in {Str(k) : k \in PublicKeyStrings} \cup {Undefined} :
        IngestUnsigned(pub)

NextUnsigned == IngestUnsignedAny \/ ClockAdvances

\* The draft server that takes a public key and no signature.
SpecUnsigned == Init /\ [][NextUnsigned]_vars

\* setInterval(..., 30000): the timer expires every 30 s, and its callback
\* has run before it expires again.
TimerFires == ~sweepDue /\ Tick

NextTimer == IngestHonest \/ Sweep \/ UpdateAggregates \/ TimerFires

\* The nonce-protected server with its timer and its deferred tasks run by
\* the event loop: a callback that is ready is run, and time passes.
SpecTimer ==
    /\ Init
    /\ [][NextTimer]_vars
    /\ WF_vars(TimerFires)
    /\ WF_vars(Sweep)
    /\ WF_vars(UpdateAggregates)

\* The position of the first ":" of a string (0 when it has none).
ColonAt(s) ==
    IF \E p \in 1..Len(s) : s[p] = ":"
    THEN CHOOSE p \in 1..Len(s) : s[p] = ":" /\ \A q \in 1..(p - 1) : s[q] # ":"
    ELSE 0

\* An honest client whose nonce holds a colon.
IngestColonNonce ==
    \E timestamp \in {Str(DecStr(now))}, nonce \in {Str(<<"a", ":", "b">>)} :
        Ingest(Str(<<"k1">>), timestamp, nonce,
               Sign(1, Message(timestamp, nonce)))

\* An observer of an accepted ping sends its signature again, with the part
\* of the nonce before the colon moved to the end of the timestamp.
IngestResplit ==
    \E i \in 1..Len(accepted) :
        \E p \in {ColonAt(accepted[i].nonce.val)} \ {0} :
            Ingest(accepted[i].publicKey,
                   Str(accepted[i].timestamp.val \o <<":">>
                           \o SubSeq(accepted[i].nonce.val, 1, p - 1)),
                   Str(SubSeq(accepted[i].nonce.val, p + 1,
                              Len(accepted[i].nonce.val))),
                   accepted[i].signature)

NextResplit ==
    IngestColonNonce \/ IngestResplit \/ Sweep \/ UpdateAggregates \/ Tick

\* The nonce-protected server under requests whose fields are cut from the
\* message of an accepted ping at another place.
SpecResplit == Init /\ [][NextResplit]_vars

NextRecoded == IngestRecoded \/ Sweep \/ UpdateAggregates \/ Tick

\* The nonce-protected server under the requests of one key pair whose client
\* sends the key in either case.
SpecRecoded == Init /\ [][NextRecoded]_vars

(* --------------------- a server started on old data -------------------- *)
MaxHistory == 31

\* The day of the first clock value.
Today == getDateKey(StartMs)

\* The days of a history of n days up to today.
historyDays(n) == {Today - i : i \in 0..(n - 1)}

\* The identifiers that ping on a day of a history of n days, in the order of
\* their pings: one key pings every day, and a second key pings on the day
\* `at` days back (at = 0: on no day).
historyIds(n, at, second, day) ==
    IF at > 0 /\ day = Today - (at - 1)
    THEN <<UserHash(Str(<<"k2">>)), second>>
    ELSE <<UserHash(Str(<<"k2">>))>>

\* Those of them that no earlier ping of the history has added to the global
\* filter: the first key on the oldest day, the second key on its day.
historyNewIds(n, at, second, day) ==
    (IF day = Today - (n - 1) THEN <<UserHash(Str(<<"k2">>))>> ELSE <<>>)
    \o (IF at > 0 /\ day = Today - (at - 1) THEN <<second>> ELSE <<>>)

RECURSIVE updatedBy(_, _)
\* An estimator after customHllUpdate with each element of a sequence.
updatedBy(hll, elements) ==
    IF elements = <<>> THEN hll
    ELSE customHllUpdate(updatedBy(hll, SubSeq(elements, 1, Len(elements) - 1)),
                         elements[Len(elements)])

\* What updateAggregates has left in an aggregate file once it has run for
\* every day of a set: the highest rank of each register among the days.
aggregateOf(files, days) ==
    [i \in UNION {DOMAIN files[d].hll : d \in days} |->
        CHOOSE r \in {Register(files[d].hll, i) : d \in days} :
            \A d \in days : Register(files[d].hll, i) <= r]

\* The daily files that the pings of a history leave.
historyDailyFiles(n, at, second) ==
    [d \in historyDays(n) |->
        [hll |-> updatedBy(EmptyHLL, historyIds(n, at, second, d)),
         newUsersHll |-> updatedBy(EmptyHLL, historyNewIds(n, at, second, d))]]

\* The server starts on the data directory that an earlier run of up to
\* MaxHistory days has left.
InitQuery ==
    \E n \in 0..MaxHistory :
        \E at \in 0..n :
            \E second \in IF at = 0 THEN {UserHash(Str(<<"k1">>))}
                           ELSE {UserHash(Str(<<"k1">>)),
                                 UserHash(Str(<<"k3">>))} :
                \E files \in {historyDailyFiles(n, at, second)},
                   ids \in {IF n = 0 THEN <<>>
                            ELSE historyIds(n, at, second, Today - (at - 1))} :
                    /\ now = StartMs
                    /\ sweepDue = FALSE
                    /\ usedNonces = [k \in {} |-> 0]
                    /\ allHLL = updatedBy(EmptyHLL, ids)
                    /\ allBloom =
                           UNION {BloomAdd(EmptyBloom, ids[i]) : i \in 1..Len(ids)}
                    /\ dailyFiles = files
                    /\ weeklyFiles =
                           [w \in {getWeekKey(d) : d \in historyDays(n)} |->
                               aggregateOf(files, {d \in historyDays(n) :
                                                      getWeekKey(d) = w})]
                    /\ monthlyFiles =
                           [m \in {getMonthKey(d) : d \in historyDays(n)} |->
                               aggregateOf(files, {d \in historyDays(n) :
                                                      getMonthKey(d) = m})]
                    /\ pendingAggregates = <<>>
                    /\ saved = NoSnapshot
                    /\ accepted = <<>>
                    /\ last = NoStep

NextQuery == Stats

\* The stats query of a server started on old data.
SpecQuery == InitQuery /\ [][NextQuery]_vars

(* ----------------- a server started on data with gaps ----------------- *)
\* The days a history with gaps reaches back.
GapSpan == 7

\* The daily files of one key that pinged on some days and not on others.
gapDailyFiles(days) ==
    [d \in days |->
        [hll |-> updatedBy(EmptyHLL, <<UserHash(Str(<<"k2">>))>>),
         newUsersHll |->
             IF \A e \in days : e >= d
             THEN updatedBy(EmptyHLL, <<UserHash(Str(<<"k2">>))>>)
             ELSE EmptyHLL]]

\* The server starts on the data directory that pings on some of the last
\* days have left.
InitGaps ==
    \E days \in (SUBSET {Today - i : i \in 0..GapSpan}) \ {{}} :
        \E files \in {gapDailyFiles(days)} :
            /\ now = StartMs
            /\ sweepDue = FALSE
            /\ usedNonces = [k \in {} |-> 0]
            /\ allHLL = updatedBy(EmptyHLL, <<UserHash(Str(<<"k2">>))>>)
            /\ allBloom = BloomAdd(EmptyBloom, UserHash(Str(<<"k2">>)))
            /\ dailyFiles = files
            /\ weeklyFiles =
                   [w \in {getWeekKey(d) : d \in days} |->
                       aggregateOf(files, {d \in days : getWeekKey(d) = w})]
            /\ monthlyFiles =
                   [m \in {getMonthKey(d) : d \in days} |->
                       aggregateOf(files, {d \in days : getMonthKey(d) = m})]
            /\ pendingAggregates = <<>>
            /\ saved = NoSnapshot
            /\ accepted = <<>>
            /\ last = NoStep

\* The stats query of a server started on data with gaps.
SpecGaps == InitGaps /\ [][NextQuery]_vars

(* ============================== claims ================================= *)
CheckOrder == <<"fields", "timestamp", "nonce", "signature">>

Verified(step) == \E i \in 1..Len(step.checks) : step.checks[i] = "signature"

\* The fields of an accepted ping that a client sends.
PingOf(a) == <<a.publicKey, a.timestamp, a.nonce, a.signature>>

LastAccepted == accepted[Len(accepted)]

C2_NoReplayAccepted ==
    \A i, j \in 1..Len(accepted) :
        i < j => PingOf(accepted[i]) # PingOf(accepted[j])

\* C3: two accepted pings with the same nonce were accepted more than the
\* replay window apart.
C3_SameNonceWindowApart ==
    \A i, j \in 1..Len(accepted) :
        (i < j /\ accepted[i].nonce = accepted[j].nonce)
            => accepted[j].at - accepted[i].at > NONCE_WINDOW_MS

\* The claimed timestamp is a number within the window of the time t.
ClaimedWithinWindow(timestamp, t) ==
    LET claimed == ParsedTimestamp[TemplateString(timestamp)]
    IN /\ ~claimed.nan
       /\ claimed.val - t <= NONCE_WINDOW_MS
       /\ t - claimed.val <= NONCE_WINDOW_MS

\* C4: every accepted ping claims a timestamp within the freshness window of
\* the server clock at its acceptance.
C4_AcceptedFresh ==
    \A i \in 1..Len(accepted) :
        ClaimedWithinWindow(accepted[i].timestamp, accepted[i].at)

\* C5: a request whose nonce the replay check finds recorded and not expired
\* is rejected for its nonce and the guard is left as it was.
C5_ReplayLeavesGuard ==
    [][(last'.op = "ingest" /\ last'.firstFailing = "nonce"
        /\ ~last'.heldExpired)
           => (/\ last'.status = 400
               /\ last'.rejectedBy = "nonce"
               /\ usedNonces' = usedNonces)]_vars

\* A replay inside the window has been rejected.
C5_Witness ==
    /\ last.op = "ingest"
    /\ last.rejectedBy = "nonce"
    /\ ~last.heldExpired
    /\ usedNonces # <<>>

\* C6 as stated: a request that reaches the replay check passes it whenever
\* its nonce is absent from the guard or recorded longer ago than the window.
C6_ExpiredEntryPasses ==
    (/\ last.op = "ingest"
     /\ last.firstFailing \notin {"fields", "timestamp"}
     /\ (last.firstFailing # "nonce" \/ last.heldExpired))
        => last.rejectedBy # "nonce"

\* C6, amended: a request that reaches the replay check passes it exactly when
\* its nonce is absent from the guard (an entry older than the window still
\* rejects it until a sweep removes the entry), and a ping that then also
\* verifies has its nonce recorded with the current server time.
C6_AbsentNoncePasses ==
    last.op = "ingest" =>
        /\ last.firstFailing \in {"signature", "none"}
               => last.rejectedBy # "nonce"
        /\ last.firstFailing = "nonce" => last.rejectedBy = "nonce"
        /\ last.status = 200 =>
               /\ LastAccepted.at = now
               /\ MapHas(usedNonces,
                         NonceKey(LastAccepted.nonce, Len(accepted)))
               /\ usedNonces[NonceKey(LastAccepted.nonce, Len(accepted))] = now

\* A nonce is accepted a second time, after its first entry expired and was
\* swept.
C6_Witness ==
    /\ last.op = "ingest"
    /\ last.status = 200
    /\ Len(accepted) = 2
    /\ accepted[1].nonce = accepted[2].nonce
    /\ accepted[2].nonce.kind = "string"
    /\ ClaimedWithinWindow(accepted[2].timestamp, accepted[2].at)

\* The step is an accepted ping.
Accepts == Len(accepted') = Len(accepted) + 1

\* C7: the new-user flag of an accepted ping is the negation of what the
\* global filter answered before the ping's identifier was added, so a ping
\* whose identifier an earlier accepted ping added is not new.
C7_NewUserFlag ==
    [][Accepts =>
         LET a == accepted'[Len(accepted')]
         IN /\ a.newUser = ~BloomHas(allBloom, UserHash(a.publicKey))
            /\ (\E i \in 1..Len(accepted) :
                    UserHash(accepted[i].publicKey) = UserHash(a.publicKey))
                   => ~a.newUser]_vars

\* A key that pinged on one day has pinged again on the next and is not new.
C7_Witness ==
    /\ Len(accepted) = 2
    /\ accepted[1].publicKey = accepted[2].publicKey
    /\ accepted[1].date # accepted[2].date
    /\ accepted[1].newUser
    /\ ~accepted[2].newUser

\* C8: an accepted ping adds its identifier to the global estimator, the
\* global filter and the current day's all-users estimator, and to the
\* current day's new-users estimator exactly when it was classified new; the
\* files of every other day stay as they were.
C8_AcceptedUpdates ==
    [][Accepts =>
         LET a == accepted'[Len(accepted')]
             id == UserHash(a.publicKey)
             day == getDateKey(now)
             before == IF day \in DOMAIN dailyFiles THEN dailyFiles[day]
                       ELSE [hll |-> EmptyHLL, newUsersHll |-> EmptyHLL]
         IN /\ a.date = day
            /\ allHLL' = customHllUpdate(allHLL, id)
            /\ allBloom' = allBloom \cup BloomPositions(id)
            /\ DOMAIN dailyFiles' = DOMAIN dailyFiles \cup {day}
            /\ dailyFiles'[day].hll = customHllUpdate(before.hll, id)
            /\ a.newUser =>
                   dailyFiles'[day].newUsersHll
                       = customHllUpdate(before.newUsersHll, id)
            /\ ~a.newUser => dailyFiles'[day].newUsersHll = before.newUsersHll
            /\ \A d \in DOMAIN dailyFiles :
                   d # day => dailyFiles'[d] = dailyFiles[d]]_vars

\* A returning ping has been accepted on a second day.
C8_Witness ==
    /\ Len(accepted) = 2
    /\ ~accepted[2].newUser
    /\ accepted[1].date # accepted[2].date
    /\ accepted[1].date \in DOMAIN dailyFiles
    /\ accepted[2].date \in DOMAIN dailyFiles

\* Every estimator the server holds, and the empty one.
StoredEstimators ==
    {EmptyHLL, allHLL}
    \cup {dailyFiles[d].hll : d \in DOMAIN dailyFiles}
    \cup {dailyFiles[d].newUsersHll : d \in DOMAIN dailyFiles}
    \cup {weeklyFiles[w] : w \in DOMAIN weeklyFiles}
    \cup {monthlyFiles[m] : m \in DOMAIN monthlyFiles}

RECURSIVE MergeAll(_)
\* The estimators of a sequence merged one after the other into an empty one.
MergeAll(hlls) ==
    IF hlls = <<>> THEN EmptyHLL
    ELSE merge(MergeAll(SubSeq(hlls, 1, Len(hlls) - 1)), hlls[Len(hlls)])

\* Every order of the days that have a daily file.
DayOrders ==
    LET days == DOMAIN dailyFiles
    IN {p \in [1..Cardinality(days) -> days] :
            \A i, j \in 1..Cardinality(days) : i # j => p[i] # p[j]}

\* C9: merge is the pointwise maximum of the two register arrays, it is
\* commutative, associative and idempotent, and merging the days' estimators
\* gives the same registers in every order of the days.
C9_MergeAlgebra ==
    /\ \A A, B \in StoredEstimators :
           /\ merge(A, B) = merge(B, A)
           /\ \A i \in (DOMAIN A) \cup (DOMAIN B) \cup {0, HLL_REGISTERS - 1} :
                  Register(merge(A, B), i) = Max(Register(A, i), Register(B, i))
           /\ \A C \in StoredEstimators :
                  merge(merge(A, B), C) = merge(A, merge(B, C))
    /\ \A A \in StoredEstimators : merge(A, A) = A
    /\ \A p, q \in DayOrders :
           MergeAll([i \in DOMAIN p |-> dailyFiles[p[i]].hll])
               = MergeAll([i \in DOMAIN q |-> dailyFiles[q[i]].hll])

\* Two days hold different estimators that share a register, and the
\* aggregation has merged both.
C9_Witness ==
    /\ Cardinality(DOMAIN dailyFiles) = 2
    /\ pendingAggregates = <<>>
    /\ \E d, e \in DOMAIN dailyFiles :
           /\ dailyFiles[d].hll # dailyFiles[e].hll
           /\ (DOMAIN dailyFiles[d].hll) \cap (DOMAIN dailyFiles[e].hll) # {}
    /\ \E m \in DOMAIN monthlyFiles : monthlyFiles[m] # EmptyHLL

\* C10: adding an element to an estimator a second time leaves the registers
\* as they were after the first addition.
C10_AddIdempotent ==
    \A h \in StoredEstimators, e \in Elements :
        customHllUpdate(customHllUpdate(h, e), e) = customHllUpdate(h, e)

\* The same key has been accepted twice, so its identifier was added twice to
\* the global estimator.
C10_Witness ==
    /\ Len(accepted) = 2
    /\ accepted[1].publicKey = accepted[2].publicKey
    /\ allHLL = customHllUpdate(EmptyHLL, UserHash(accepted[1].publicKey))

\* Every order of the positions 1..n.
Orders(n) == {p \in [1..n -> 1..n] : \A i, j \in 1..n : i # j => p[i] # p[j]}

RECURSIVE AddAll(_, _)
\* The elements of a sequence added one after the other to an estimator.
AddAll(hll, elements) ==
    IF elements = <<>> THEN hll
    ELSE customHllUpdate(AddAll(hll, SubSeq(elements, 1, Len(elements) - 1)),
                         elements[Len(elements)])

\* The identifiers of the pings accepted on the days of a set, in the order
\* in which the pings were accepted.
RECURSIVE AcceptedIds(_, _)
AcceptedIds(days, n) ==
    IF n = 0 THEN <<>>
    ELSE IF accepted[n].date \in days
    THEN Append(AcceptedIds(days, n - 1), UserHash(accepted[n].publicKey))
    ELSE AcceptedIds(days, n - 1)

\* The days on which a ping has been accepted.
AcceptedDays == {accepted[i].date : i \in 1..Len(accepted)}

\* C11: every order of adding a set of elements to an empty estimator gives
\* the same register array: the global estimator and each day's estimator
\* hold the registers that any order of the accepted identifiers produces.
C11_AddOrderIndependent ==
    /\ \A p \in Orders(Len(accepted)) :
           LET ids == AcceptedIds(AcceptedDays, Len(accepted))
           IN AddAll(EmptyHLL, [i \in 1..Len(ids) |-> ids[p[i]]]) = allHLL
    /\ \A d \in AcceptedDays :
           LET ids == AcceptedIds({d}, Len(accepted))
           IN \A p \in Orders(Len(ids)) :
                  AddAll(EmptyHLL, [i \in 1..Len(ids) |-> ids[p[i]]])
                      = dailyFiles[d].hll

\* Two keys of the same register have been accepted on one day, the higher
\* rank first.
C11_Witness ==
    /\ Len(accepted) = 2
    /\ accepted[1].date = accepted[2].date
    /\ HashOf[UserHash(accepted[1].publicKey)].registerIndex
           = HashOf[UserHash(accepted[2].publicKey)].registerIndex
    /\ HashOf[UserHash(accepted[1].publicKey)].rho
           > HashOf[UserHash(accepted[2].publicKey)].rho

\* The register index read from the digest's bytes: the low 10 bits of the
\* 16-bit number its last two bytes write.
LowBitsIndex(digest) == ((digest[7] * 256) + digest[8]) % HLL_REGISTERS

\* The number of zero bits above the most-significant set bit of a 64-bit
\* digest, read from its bytes (64 for the zero digest).
LeadingZeros(digest) ==
    IF \A j \in 1..8 : digest[j] = 0 THEN 64
    ELSE LET j == CHOOSE i \in 1..8 :
                      digest[i] # 0 /\ \A h \in 1..(i - 1) : digest[h] = 0
             e == CHOOSE x \in 0..7 :
                      (2 ^ x) <= digest[j] /\ digest[j] < 2 ^ (x + 1)
         IN (8 * (j - 1)) + (7 - e)

\* 1 plus the number of leading zero bits of the 54-bit remainder field, or 54
\* when the field is all zero.
LeadingZeroRank(digest) ==
    IF LeadingZeros(digest) >= 64 - NB_BYTES_PER_HASH
    THEN 64 - NB_BYTES_PER_HASH
    ELSE LeadingZeros(digest) + 1

\* An estimator with the register of an element raised to a rank.
RaisedTo(hll, index, rank) == (index :> Max(Register(hll, index), rank)) @@ hll

\* C12 as stated: an accepted ping raises the register that the low 10 bits
\* of its identifier's digest select to 1 plus the position of the
\* least-significant set bit of the remaining 54 bits (54 when they are all
\* zero).
C12_LowestSetBitRank ==
    [][Accepts =>
         LET id == UserHash(accepted'[Len(accepted')].publicKey)
         IN allHLL' = RaisedTo(allHLL, LowBitsIndex(Blake3Digest(id)),
                               rhoOfLowestSetBit(id))]_vars

\* C12, amended: an accepted ping raises the register that the low 10 bits
\* of its identifier's digest select to the maximum of its old value and the
\* rank, where the rank is 1 plus the number of leading zero bits of the
\* remaining 54 bits (counted from the most-significant bit of the digest)
\* and 54 when they are all zero; no other register changes.
C12_LeadingZeroRank ==
    [][Accepts =>
         LET id == UserHash(accepted'[Len(accepted')].publicKey)
             day == getDateKey(now)
             before == IF day \in DOMAIN dailyFiles THEN dailyFiles[day].hll
                       ELSE EmptyHLL
             index == LowBitsIndex(Blake3Digest(id))
             rank == LeadingZeroRank(Blake3Digest(id))
         IN /\ allHLL' = RaisedTo(allHLL, index, rank)
            /\ dailyFiles'[day].hll = RaisedTo(before, index, rank)]_vars

\* The global estimator holds rank 3 for a digest whose least-significant set
\* remainder bit would give 52, and rank 54 for a digest whose remainder is
\* all zero.
C12_Witness ==
    /\ \E i \in 1..Len(accepted) : accepted[i].publicKey = Str(<<"k1">>)
    /\ \E i \in 1..Len(accepted) : accepted[i].publicKey = Str(<<"k3">>)
    /\ rhoOfLowestSetBit(<<"blake3", "k1">>) = 52
    /\ Register(allHLL, 5) = 3
    /\ Register(allHLL, 263) = 64 - NB_BYTES_PER_HASH

\* No register of an estimator is lower afterwards.
NoDecrease(old, new) == \A i \in DOMAIN old : Register(new, i) >= old[i]

\* C13: no step lowers a register of a stored estimator: the global one, a
\* day's all-users or new-users one, a weekly or a monthly one; and no stored
\* estimator disappears.
C13_RegistersMonotone ==
    [][/\ NoDecrease(allHLL, allHLL')
       /\ \A d \in DOMAIN dailyFiles :
              /\ d \in DOMAIN dailyFiles'
              /\ NoDecrease(dailyFiles[d].hll, dailyFiles'[d].hll)
              /\ NoDecrease(dailyFiles[d].newUsersHll,
                            dailyFiles'[d].newUsersHll)
       /\ \A w \in DOMAIN weeklyFiles :
              w \in DOMAIN weeklyFiles' /\ NoDecrease(weeklyFiles[w], weeklyFiles'[w])
       /\ \A m \in DOMAIN monthlyFiles :
              m \in DOMAIN monthlyFiles'
              /\ NoDecrease(monthlyFiles[m], monthlyFiles'[m])]_vars

\* A register that held rank 3 has been offered rank 1 by a later ping, and
\* a month's estimator has been merged with those of two days.
C13_Witness ==
    /\ Len(accepted) = 2
    /\ accepted[1].publicKey = Str(<<"k1">>)
    /\ accepted[2].publicKey = Str(<<"k2">>)
    /\ accepted[1].date # accepted[2].date
    /\ pendingAggregates = <<>>
    /\ \A m \in DOMAIN monthlyFiles : Register(monthlyFiles[m], 5) = 3
    /\ Register(dailyFiles[accepted[2].date].hll, 5) = 1

\* The retention records of the stats response handled last.
RetentionRecords ==
    {last.response.retention.d1, last.response.retention.d7,
     last.response.retention.d30}

\* The register-wise larger of two estimators.
UnionRegisters(a, b) ==
    [i \in (DOMAIN a) \cup (DOMAIN b) |->
        IF Register(a, i) > Register(b, i) THEN Register(a, i)
        ELSE Register(b, i)]

\* The estimates a retention record is computed from: of its cohort day, of
\* its return day and of their union, and the overlap that
\* inclusion-exclusion gives, clamped at 0.
EstimatesOf(rec) ==
    LET c == count(dailyFiles[rec.cohortDate].hll)
        r == count(dailyFiles[rec.returnDate].hll)
        u == count(UnionRegisters(dailyFiles[rec.cohortDate].hll,
                                  dailyFiles[rec.returnDate].hll))
    IN [cohort |-> c, return |-> r, union |-> u,
        overlap |-> IF c + r > u THEN (c + r) - u ELSE 0]

\* n is x / unit rounded to the nearest integer.
Nearest(n, x, unit) ==
    /\ (2 * ((n * unit) - x)) <= unit
    /\ (2 * (x - (n * unit))) <= unit

\* C14 as stated: returnedUsers is max(0, |cohort| + |return| - |union|) and
\* retentionRate is returnedUsers / |cohort| * 100 when |cohort| > 0, else 0.
C14_InclusionExclusionExact ==
    last.op = "stats" =>
        \A rec \in RetentionRecords :
            ~rec.null =>
                LET e == EstimatesOf(rec)
                IN /\ rec.returnedUsers * EstimateUnit = e.overlap
                   /\ e.cohort > 0 =>
                          rec.retentionRate * e.cohort = e.overlap * 10000
                   /\ e.cohort = 0 => rec.retentionRate = 0

\* C14, amended: a retention record is computed by inclusion-exclusion over
\* the estimates of the cohort day, the return day and their merge, the
\* overlap clamped at 0; the record holds the cohort estimate and the overlap
\* rounded to the nearest integer, and the rate overlap / |cohort| * 100
\* (0 when |cohort| is 0), computed from the unrounded values and rounded to
\* two decimals.
C14_InclusionExclusionRounded ==
    last.op = "stats" =>
        \A rec \in RetentionRecords :
            ~rec.null =>
                LET e == EstimatesOf(rec)
                IN /\ Nearest(rec.cohortSize, e.cohort, EstimateUnit)
                   /\ Nearest(rec.returnedUsers, e.overlap, EstimateUnit)
                   /\ rec.returnedUsers >= 0
                   /\ rec.retentionRate >= 0
                   /\ e.cohort > 0 =>
                          Nearest(rec.retentionRate, e.overlap * 10000,
                                  e.cohort)
                   /\ e.cohort = 0 => rec.retentionRate = 0

\* The stats query has answered with a record of two days whose estimates
\* add up to less than the estimate of their union, and reports no returned
\* user.
C14_Witness ==
    /\ last.op = "stats"
    /\ ~last.response.retention.d1.null
    /\ LET e == EstimatesOf(last.response.retention.d1)
       IN e.cohort + e.return < e.union
    /\ last.response.retention.d1.returnedUsers = 0
    /\ last.response.retention.d1.retentionRate = 0

Buckets == DOMAIN dailyFiles

BucketBack(back) ==
    CHOOSE d \in Buckets : Cardinality({e \in Buckets : e > d}) = back

\* A retention record that is computed from two existing daily files, the
\* cohort's older than the return's, and reports a cohort that is not empty.
Populated(rec) ==
    /\ ~rec.null
    /\ rec.cohortDate \in Buckets
    /\ rec.returnDate \in Buckets
    /\ rec.cohortDate < rec.returnDate
    /\ Nearest(rec.cohortSize, count(dailyFiles[rec.cohortDate].hll),
               EstimateUnit)
    /\ rec.cohortSize >= 1

\* C16: with fewer than two daily files the stats query answers null for d1,
\* d7 and d30; each of the three is null or a record computed from two
\* existing daily files; for an offset that has no file of its own the
\* record is that of the oldest file, never a record of zeros.
C16_RetentionNullOrPopulated ==
    last.op = "stats" =>
        LET ret == last.response.retention
            n == Cardinality(Buckets)
        IN /\ n < 2 => ret.d1.null /\ ret.d7.null /\ ret.d30.null
           /\ \A rec \in {ret.d1, ret.d7, ret.d30} :
                  rec = NoRetention \/ Populated(rec)
           /\ n >= 2 =>
                  /\ ret.d1.cohortDate = BucketBack(1)
                  /\ ret.d7.cohortDate = BucketBack(IF n > 7 THEN 7 ELSE n - 1)
                  /\ ret.d30.cohortDate
                         = BucketBack(IF n > 30 THEN 30 ELSE n - 1)
                  /\ \A rec \in {ret.d1, ret.d7, ret.d30} :
                         rec.returnDate = BucketBack(0)

\* The stats query has answered a server that holds one daily file.
C16_Witness ==
    /\ last.op = "stats"
    /\ Cardinality(Buckets) = 1
    /\ last.response.retention.d1 = NoRetention
    /\ last.response.retention.d30 = NoRetention
    /\ last.response.recentDays[1].dau > 0

\* The `days` most recent of the days that have a daily file.
MostRecent(days) ==
    {d \in Buckets : Cardinality({e \in Buckets : e > d}) < days}

\* The estimator that holds, in each register, the highest rank that the
\* all-users estimators of a set of days hold there.
MaxOfDays(days) ==
    [i \in UNION {DOMAIN dailyFiles[d].hll : d \in days} |->
        CHOOSE r \in {Register(dailyFiles[d].hll, i) : d \in days} :
            \A d \in days : Register(dailyFiles[d].hll, i) <= r]

\* C17: wau is the estimate of the pointwise maximum of the all-users
\* estimators of the up to 7 most recent days that have a daily file, mau
\* that of the up to 30 most recent; with no daily file both are the
\* estimate of an empty estimator.
C17_WindowEstimates ==
    last.op = "stats" =>
        /\ last.response.wau = count(MaxOfDays(MostRecent(7)))
        /\ last.response.mau = count(MaxOfDays(MostRecent(30)))
        /\ Buckets = {} =>
               /\ last.response.wau = count(EmptyHLL)
               /\ last.response.mau = count(EmptyHLL)

\* The stats query has answered a server with more than 30 daily files, where
\* a key that pinged only on the oldest day counts for the all-time estimate
\* and not for mau.
C17_Witness ==
    /\ last.op = "stats"
    /\ Cardinality(Buckets) > 30
    /\ last.response.allTime > last.response.mau
    /\ last.response.mau = last.response.wau
    /\ last.response.wau > 0

\* The days with a daily file that fall in the bucket `key` of a period.
PeriodKey(period, d) ==
    IF period = "week" THEN getWeekKey(d) ELSE getMonthKey(d)

DaysIn(period, key) == {d \in Buckets : PeriodKey(period, d) = key}

\* An aggregate file holds, in every register, the highest rank that the
\* all-users estimators of the days of its bucket hold there (a register
\* that neither holds is 0 in both).
RebuiltFromDays(files, period) ==
    \A key \in (DOMAIN files) \cup {PeriodKey(period, d) : d \in Buckets} :
        /\ key \in DOMAIN files
        /\ DaysIn(period, key) # {}
        /\ \E rebuilt \in {MaxOfDays(DaysIn(period, key))} :
               \A i \in (DOMAIN files[key]) \cup (DOMAIN rebuilt) :
                   Register(files[key], i) = Register(rebuilt, i)

WellFormedPing(ping) ==
    /\ ping.timestamp.kind = "string"
    /\ ~ParsedTimestamp[ping.timestamp.val].nan
    /\ ping.nonce.kind = "string"

\* C19: a request with a missing field is answered 400 and one with a
\* malformed timestamp or nonce is not accepted; a request is answered 401
\* exactly when the signature check is the first it fails; no request is
\* answered 500 while nothing fails inside the server.
C19_StatusSeparatesClasses ==
    last.op = "ingest" =>
        /\ last.firstFailing = "fields" => last.status = 400
        /\ last.status = 200 => WellFormedPing(accepted[Len(accepted)])
        /\ last.status = 401 <=> last.firstFailing = "signature"
        /\ last.status # 500

\* The message of a ping with the current time and the nonce "a".
CurrentMessage == Message(Str(DecStr(now)), Str(<<"a">>))

SignedMessage(ping) == ping.signature.msg

C22_IdentifierOfKeyBytes ==
    \A i, j \in 1..Len(accepted) :
        Bech32Key(accepted[i].publicKey.val)
            = Bech32Key(accepted[j].publicKey.val)
        => /\ UserHash(accepted[i].publicKey) = UserHash(accepted[j].publicKey)
           /\ HashOf[UserHash(accepted[i].publicKey)]
                  = HashOf[UserHash(accepted[j].publicKey)]
           /\ BloomPositions(UserHash(accepted[i].publicKey))
                  = BloomPositions(UserHash(accepted[j].publicKey))

\* C23: the element an ingest handler passed to the membership filters and
\* the estimators for an accepted ping is never the public key of the request
\* as it was sent.
C23_OnlyDerivedIdentifier ==
    \A i \in 1..Len(accepted) :
        /\ accepted[i].element # accepted[i].publicKey.val
        /\ accepted[i].element \notin RawElements

\* C24: a ping that passes all four checks is answered with the success
\* acknowledgment, whether or not a storage write fails while it is handled,
\* and the global estimator holds its identifier.
C24_WriteFaultTolerated ==
    (last.op = "ingest" /\ last.firstFailing = "none") =>
        /\ last.status = 200
        /\ \E element \in {accepted[Len(accepted)].element} :
               Register(allHLL, HashOf[element].registerIndex)
                   >= HashOf[element].rho

\* The number of accepted pings the in-memory statistics hold and the
\* snapshot on disk does not.
Lag == Len(accepted) - saved.pings

\* C25: at every moment the snapshot on disk lags the in-memory statistics
\* by at most one accepted ping.
C25_LagAtMostOne == Lag <= 1

\* An estimator holds an element: the element's register is at least its
\* rank.
Holds(hll, element) ==
    Register(hll, HashOf[element].registerIndex) >= HashOf[element].rho

\* All of the updates of a ping that passed the checks are in the state the
\* other handlers read: the global estimator and filter in memory, the day's
\* estimators on disk.
AllApplied(ping) ==
    /\ Holds(allHLL, ping.element)
    /\ BloomHas(allBloom, ping.element)
    /\ ping.date \in DOMAIN dailyFiles
    /\ Holds(dailyFiles[ping.date].hll, ping.element)
    /\ ping.newUser => Holds(dailyFiles[ping.date].newUsersHll, ping.element)

\* C26: between any two handlers, every ping that passed the checks has all
\* of its updates applied to the global estimator, the global filter, the day
\* estimator and, for a new user, the new-users estimator; no handler starts
\* in a state that holds only some of them.
C26_UpdatesAllOrNone ==
    \A i \in 1..Len(accepted) : AllApplied(accepted[i])

\* The estimators and filters a server keeps, in memory and on disk.
stored ==
    <<allHLL, allBloom, dailyFiles, weeklyFiles, monthlyFiles, saved>>

\* C27: a stats query leaves every stored estimator and filter unchanged, in
\* memory and on disk: its merges go to estimators the handler created.
C27_StatsLeavesStored ==
    [][last'.op \in {"stats", "statsHmac"} => UNCHANGED stored]_vars

\* A stats query of the HMAC server has merged two days' estimators that
\* differ.
C27_Witness ==
    /\ last.op = "statsHmac"
    /\ \E d, e \in DOMAIN dailyFiles :
           /\ d < e
           /\ dailyFiles[d].hll # dailyFiles[e].hll
           /\ dailyFiles[e].hll # EmptyHLL

\* The age of a guard entry: now minus the time recorded with the nonce.
AgeOf(key) == now - usedNonces[key]

\* C28: a nonce sweep removes exactly the guard entries whose age exceeds
\* the replay window: an entry still inside the window stays, with its
\* recorded time, an entry older than the window is gone, and no entry is
\* added.
C28_SweepRemovesExactlyExpired ==
    [][(sweepDue /\ ~sweepDue') =>
           /\ DOMAIN usedNonces' =
                  {key \in DOMAIN usedNonces : AgeOf(key) <= NONCE_WINDOW_MS}
           /\ \A key \in DOMAIN usedNonces' :
                  usedNonces'[key] = usedNonces[key]]_vars

\* A sweep has removed the nonce of one accepted ping and kept the nonce of
\* another whose age is the window itself.
C28_Witness ==
    /\ ~sweepDue
    /\ \E i \in 1..Len(accepted) :
           NonceKey(accepted[i].nonce, i) \notin DOMAIN usedNonces
    /\ \E j \in 1..Len(accepted) :
           /\ NonceKey(accepted[j].nonce, j) \in DOMAIN usedNonces
           /\ AgeOf(NonceKey(accepted[j].nonce, j)) = NONCE_WINDOW_MS

\* The longest a guard entry stays: the replay window and one sweep interval.
MaxGuardAge == NONCE_WINDOW_MS + SWEEP_INTERVAL_MS

\* The keys the guard can hold for the nonces of honest clients.
GuardKeys ==
    {NonceKey(Str(<<"n">> \o DecStr(i)), 0) : i \in 0..(MaxAccepted + 1)}

\* No entry of the guard is older than the window and one sweep interval; an
\* entry of that very age is there only until the sweep due at this moment
\* has run.
GuardAgeBounded ==
    \A key \in DOMAIN usedNonces :
        \/ AgeOf(key) < MaxGuardAge
        \/ AgeOf(key) = MaxGuardAge /\ sweepDue

\* C29: every nonce recorded by an accepted ping is eventually removed from
\* the guard, and with the sweep timer firing every 30 s no entry stays for
\* more than window + sweep interval (90 s) after it was recorded.  The
\* clock of the model stops at EndMs: the entries recorded early enough for
\* their 90 s to pass are the ones that must be seen to go.
C29_NonceEventuallySwept ==
    /\ []GuardAgeBounded
    /\ \A key \in GuardKeys :
           (key \in DOMAIN usedNonces
               /\ usedNonces[key] + MaxGuardAge <= EndMs)
           ~> (key \notin DOMAIN usedNonces)

\* The nonce of an accepted ping has been in the guard for the whole window
\* and one sweep interval, and the sweep that is due has removed it.
C29_Witness ==
    /\ ~sweepDue
    /\ \E i \in 1..Len(accepted) :
           /\ now - accepted[i].at = MaxGuardAge
           /\ NonceKey(accepted[i].nonce, i) \notin DOMAIN usedNonces

\* Every register of estimator a is at least the same register of b.
Covers(a, b) == \A i \in DOMAIN b : Register(a, i) >= b[i]

\* The weekly and the monthly file of the day of the i-th accepted ping exist
\* and cover that day's all-users estimator, the ping's identifier included.
Reflected(i) ==
    LET ping == accepted[i]
        weekKey == getWeekKey(ping.date)
        monthKey == getMonthKey(ping.date)
        dayHLL == getDailyData(ping.date).hll
    IN /\ Holds(dayHLL, ping.element)
       /\ weekKey \in DOMAIN weeklyFiles
       /\ Covers(weeklyFiles[weekKey], dayHLL)
       /\ Holds(weeklyFiles[weekKey], ping.element)
       /\ monthKey \in DOMAIN monthlyFiles
       /\ Covers(monthlyFiles[monthKey], dayHLL)
       /\ Holds(monthlyFiles[monthKey], ping.element)

\* C30: every accepted ping is eventually reflected in the aggregates: once
\* no aggregation task is pending, the weekly and the monthly file of the
\* ping's day cover that day's all-users estimator and hold the ping's
\* identifier, and that moment comes for every accepted ping.
C30_PingReachesAggregates ==
    /\ [](pendingAggregates = <<>> =>
              \A i \in 1..Len(accepted) : Reflected(i))
    /\ \A i \in 1..MaxAccepted :
           (Len(accepted) >= i) ~> (Len(accepted) >= i /\ Reflected(i))

\* The aggregation tasks of two accepted pings of two days of one month have
\* run, and the monthly file holds both identifiers, which neither day's
\* estimator does.
C30_Witness ==
    /\ pendingAggregates = <<>>
    /\ \E i, j \in 1..Len(accepted) :
           /\ accepted[i].date < accepted[j].date
           /\ getMonthKey(accepted[i].date) = getMonthKey(accepted[j].date)
           /\ Reflected(i)
           /\ Reflected(j)
           /\ ~Holds(getDailyData(accepted[i].date).hll, accepted[j].element)
           /\ ~Holds(getDailyData(accepted[j].date).hll, accepted[i].element)

\* A retention record that compares the current calendar day with the day
\* `offset` calendar days before it.
CalendarRecord(rec, offset) ==
    /\ rec.returnDate = getDateKey(now)
    /\ rec.cohortDate = rec.returnDate - offset

\* C31: every retention record the stats query answers compares calendar
\* days: its returnDate is the current day, and its cohortDate is the day 1
\* (d1), 7 (d7) or 30 (d30) calendar days before returnDate, whichever days
\* have a daily file.
C31_RetentionCalendarDays ==
    last.op = "stats" =>
        LET ret == last.response.retention
        IN /\ ~ret.d1.null => CalendarRecord(ret.d1, 1)
           /\ ~ret.d7.null => CalendarRecord(ret.d7, 7)
           /\ ~ret.d30.null => CalendarRecord(ret.d30, 30)

\* The four checks that reject a request.
RejectingChecks == {"fields", "timestamp", "nonce", "signature"}

\* What a ping can change: the guard, the global estimator and filter, the
\* files, and the queue of deferred tasks.
ingestState ==
    <<usedNonces, allHLL, allBloom, dailyFiles, weeklyFiles, monthlyFiles,
      pendingAggregates, saved>>

\* C32: a request rejected by the field, freshness, nonce or signature check
\* leaves the nonce guard, the global estimator and filter and every file
\* as they were, and a request records its nonce only if its signature
\* verified.
C32_RejectionLeavesState ==
    [][last'.op = "ingest" =>
           /\ last'.rejectedBy \in RejectingChecks => UNCHANGED ingestState
           /\ usedNonces' # usedNonces => last'.sigValid]_vars

\* A request with a fresh timestamp and an unused nonce has been rejected by
\* the signature check on a server that holds an accepted ping.
C32_Witness ==
    /\ last.op = "ingest"
    /\ last.rejectedBy = "signature"
    /\ last.status = 401
    /\ Len(accepted) >= 1
    /\ DOMAIN usedNonces # {}

\* What a retried ping meets: the guard, the global estimator and filter in
\* memory, and the daily files.
retryState == <<usedNonces, allHLL, allBloom, dailyFiles>>

\* C33: a request answered 500 has left no trace: the nonce guard, the
\* global estimator and filter in memory and the daily files are as they
\* were before the request, so that the same ping can be sent again and is
\* then counted, as a new user if it was one.
C33_InternalErrorLeavesNoTrace ==
    [][(last'.op = "ingest" /\ last'.status = 500) =>
           UNCHANGED retryState]_vars

\* C34: on a server started empty, every register of a day's new-users
\* estimator is at most the same register of that day's all-users estimator,
\* which is at most the same register of the global estimator.
C34_EstimatorsNested ==
    \A d \in DOMAIN dailyFiles :
        /\ \A i \in DOMAIN dailyFiles[d].newUsersHll :
               dailyFiles[d].newUsersHll[i] <= Register(dailyFiles[d].hll, i)
        /\ \A i \in DOMAIN dailyFiles[d].hll :
               dailyFiles[d].hll[i] <= Register(allHLL, i)

\* After pings on two days, a day's new-users estimator is below its
\* all-users estimator in one register, and that one below the global
\* estimator in another.
C34_Witness ==
    /\ Len(accepted) >= 2
    /\ \E d \in DOMAIN dailyFiles :
           /\ \E i \in DOMAIN dailyFiles[d].hll :
                  Register(dailyFiles[d].newUsersHll, i) < dailyFiles[d].hll[i]
           /\ \E i \in DOMAIN allHLL :
                  Register(dailyFiles[d].hll, i) < allHLL[i]

\* The estimators and filters of the HMAC server in memory.
hmacStatistics == <<dailyFiles, allHLL, allBloom>>

\* The step is the acceptance of a ping that was accepted before.
AcceptedAgain ==
    /\ last'.op = "ingestHmac"
    /\ last'.status = 200
    /\ Len(accepted') = Len(accepted) + 1
    /\ \E i \in 1..Len(accepted) :
           PingOf(accepted[i]) = PingOf(accepted'[Len(accepted')])

\* C35: in the HMAC server an accepted ping that is sent again inside the
\* timestamp window is accepted again and changes nothing: every daily and
\* global estimator and filter is as it was after the first acceptance.
C35_ResubmissionChangesNothing ==
    [][AcceptedAgain => UNCHANGED hmacStatistics]_vars

\* C36: the signed message determines the request fields: a signature the
\* server has accepted for one timestamp and nonce is never accepted for a
\* request with another timestamp or another nonce.
C36_MessageDeterminesFields ==
    \A i, j \in 1..Len(accepted) :
        accepted[i].signature = accepted[j].signature =>
            /\ accepted[i].timestamp = accepted[j].timestamp
            /\ accepted[i].nonce = accepted[j].nonce
====
